---- MODULE Spec2Model ----
(***************************************************************************)
(* Model of netd's InterfaceController (server/InterfaceController.cpp).   *)
(*                                                                         *)
(* C strings are modelled as sequences of one-character strings, so that   *)
(* strcmp is sequence equality, strchr is a search for an element and      *)
(* StringPrintf / std::to_string build the sequence they build in C.       *)
(* The virtual filesystem is a function from path to file content.         *)
(***************************************************************************)
EXTENDS Integers, Sequences, FiniteSets, TLC

(***************************************************************************)
(* String literals of the source.                                          *)
(***************************************************************************)
ipv6_proc_path ==
    <<"/","p","r","o","c","/","s","y","s","/","n","e","t","/","i","p","v","6","/","c","o","n","f">>
ipv4_neigh_conf_dir ==
    <<"/","p","r","o","c","/","s","y","s","/","n","e","t","/","i","p","v","4","/","n","e","i","g","h">>
ipv6_neigh_conf_dir ==
    <<"/","p","r","o","c","/","s","y","s","/","n","e","t","/","i","p","v","6","/","n","e","i","g","h">>
proc_net_path ==
    <<"/","p","r","o","c","/","s","y","s","/","n","e","t">>
sys_net_path ==
    <<"/","s","y","s","/","c","l","a","s","s","/","n","e","t">>
str_default ==
    <<"d","e","f","a","u","l","t">>
str_all ==
    <<"a","l","l">>
str_dot ==
    <<".">>
str_dotdot ==
    <<".",".">>
str_ipv4 ==
    <<"i","p","v","4">>
str_ipv6 ==
    <<"i","p","v","6">>
str_accept_ra ==
    <<"a","c","c","e","p","t","_","r","a">>
str_accept_ra_rt_info_min_plen ==
    <<"a","c","c","e","p","t","_","r","a","_","r","t","_","i","n","f","o","_","m","i","n","_","p","l","e","n">>
str_accept_ra_rt_info_max_plen ==
    <<"a","c","c","e","p","t","_","r","a","_","r","t","_","i","n","f","o","_","m","a","x","_","p","l","e","n">>
str_accept_ra_rt_table ==
    <<"a","c","c","e","p","t","_","r","a","_","r","t","_","t","a","b","l","e">>
str_optimistic_dad ==
    <<"o","p","t","i","m","i","s","t","i","c","_","d","a","d">>
str_use_optimistic ==
    <<"u","s","e","_","o","p","t","i","m","i","s","t","i","c">>
str_use_oif_addrs_only ==
    <<"u","s","e","_","o","i","f","_","a","d","d","r","s","_","o","n","l","y">>
str_base_reachable_time_ms ==
    <<"b","a","s","e","_","r","e","a","c","h","a","b","l","e","_","t","i","m","e","_","m","s">>
str_disable_ipv6 ==
    <<"d","i","s","a","b","l","e","_","i","p","v","6">>
str_accept_dad ==
    <<"a","c","c","e","p","t","_","d","a","d">>
str_dad_transmits ==
    <<"d","a","d","_","t","r","a","n","s","m","i","t","s">>
str_use_tempaddr ==
    <<"u","s","e","_","t","e","m","p","a","d","d","r">>
str_mtu ==
    <<"m","t","u">>
str_eth0 ==
    <<"e","t","h","0">>
str_wlan0 ==
    <<"w","l","a","n","0">>
str_lo ==
    <<"l","o">>
str_conf ==
    <<"c","o","n","f">>
str_inet ==
    <<"i","n","e","t">>
str_a_slash_b ==
    <<"a","/","b">>
str_eth0_1 ==
    <<"e","t","h","0",".","1">>
str_rmnet ==
    <<"r","m","n","e","t">>

(***************************************************************************)
(* Numeric constants of the source and of <errno.h>.                       *)
(***************************************************************************)
kRouteInfoMinPrefixLen == 48
kRouteInfoMaxPrefixLen == 64
ROUTE_TABLE_OFFSET_FROM_INDEX == 1000
ENOENT == 2
EACCES == 13
EINVAL == 22
EAFNOSUPPORT == 97

(***************************************************************************)
(* Bounds of the model.                                                    *)
(***************************************************************************)
\* longest string drawn as an input of the path-safety predicates
MaxLen == 3
\* number of failures the read/write capability injects in one behaviour
MaxFailures == 2
\* number of interfaces the kernel creates while a pass is running
MaxCreated == 2

(***************************************************************************)
(* Strings.                                                                *)
(***************************************************************************)
DigitChars == <<"0","1","2","3","4","5","6","7","8","9">>

RECURSIVE Digits(_)
Digits(n) ==
    IF n < 10 THEN <<DigitChars[n + 1]>>
    ELSE Digits(n \div 10) \o <<DigitChars[(n % 10) + 1]>>

\* std::to_string(int) and StringPrintf("%d", int) / StringPrintf("%u", unsigned)
to_string(n) == IF n < 0 THEN <<"-">> \o Digits(0 - n) ELSE Digits(n)

\* strchr(s, c) != nullptr
strchr(s, c) == \E i \in 1..Len(s) : s[i] = c

\* StringPrintf("%s/%s/%s", dirname, subdirname, basename)
StringPrintf3(dirname, subdirname, basename) ==
    dirname \o <<"/">> \o subdirname \o <<"/">> \o basename

\* StringPrintf("%s/%s/%s/%s/%s", proc_net_path, family, which, interface, parameter)
StringPrintf5(root, family, which, interface, parameter) ==
    root \o <<"/">> \o family \o <<"/">> \o which \o <<"/">> \o interface
         \o <<"/">> \o parameter

(***************************************************************************)
(* Path safety predicates.                                                 *)
(***************************************************************************)
isNormalPathComponent_noSlashCheck(component) ==
    /\ component # str_dot
    /\ component # str_dotdot

isNormalPathComponent(component) ==
    /\ component # str_dot
    /\ component # str_dotdot
    /\ ~strchr(component, "/")

isAddressFamilyPathComponent(component) ==
    component = str_ipv4 \/ component = str_ipv6

isInterfaceName_allowReserved(name) == isNormalPathComponent(name)

isInterfaceName(name) ==
    /\ isNormalPathComponent(name)
    /\ name # str_default
    /\ name # str_all

\* isIfaceName is declared in NetdConstants.h; the single-target setters are
\* specified to validate with the interface-name predicate above.
isIfaceName(name) == isInterfaceName(name)

(***************************************************************************)
(* State.                                                                  *)
(***************************************************************************)
VARIABLES
    present,  \* names of the real interfaces that exist (a subdirectory each)
    fs,       \* the virtual filesystem: path |-> content of the node
    errno,    \* the thread's errno
    pc,       \* position of the control thread
    call,     \* the operation that was called, with its arguments
    todo,     \* the forEachInterface passes the operation still has to run
    dirp,     \* the DIR* of the running pass: open flag and entries not yet read
    cur,      \* the interface the two-write callback is in the middle of
    invoked,  \* history: interfaces the callback was invoked on in this pass
    listed,   \* history: dirents readdir returned in this pass
    log,      \* history: calls made to the file capabilities and to opendir
    ret       \* <<return value>> of the operation, <<>> for none / void

vars == <<present, fs, errno, pc, call, todo, dirp, cur, invoked, listed, log, ret>>

(***************************************************************************)
(* Environment: directory content, the file capabilities.                  *)
(***************************************************************************)
Ifaces == {str_eth0, str_wlan0}

\* entries every per-interface directory of /proc/sys/net holds besides the
\* real interfaces; "lo" stands for an entry that is not a directory
FixedEntries ==
    { <<str_dot, "DT_DIR">>,
      <<str_dotdot, "DT_DIR">>,
      <<str_all, "DT_DIR">>,
      <<str_default, "DT_DIR">>,
      <<str_lo, "DT_REG">> }

DirEntries(ifs) == FixedEntries \cup { <<i, "DT_DIR">> : i \in ifs }

\* accessors of the tuples the state is made of
d_name(ent) == ent[1]

d_type(ent) == ent[2]

DirOpen(d) == d[1]

DirRest(d) == d[2]

CallName(c) == c[1]

CallArgs(c) == c[2]

CurIface(c) == c[1]

CurResume(c) == c[2]

PassKind(p) == p[1]

PassDir(p) == p[2]

PassBasename(p) == p[3]

PassValue(p) == p[4]

PassMin(p) == p[3]

PassMax(p) == p[4]

LogEntry(op, path, value, ok) == <<op, path, value, ok>>

LogOp(e) == e[1]

LogPath(e) == e[2]

LogValue(e) == e[3]

LogOk(e) == e[4]

PathOf(r) == r[1]

ErrOf(r) == r[2]

ClosedDir == <<FALSE, {}>>

NoCall == <<"none", <<>> >>

NoCur == <<<<>>, "none">>

\* errno values a failed open/read/write leaves behind
IOErrnos == {ENOENT, EACCES}

NumFailed(l) == Cardinality({ i \in 1..Len(l) : ~LogOk(l[i]) })

\* outcomes the capability may still produce in this behaviour
Outcomes == IF NumFailed(log) < MaxFailures THEN {TRUE, FALSE} ELSE {TRUE}

ErrnoAfter(ok) == IF ok THEN {errno} ELSE IOErrnos

\* android::base::WriteStringToFile(value, path): truncating overwrite
WriteStringToFile(value, path, ok, e) ==
    /\ fs' = IF ok THEN (path :> value) @@ fs ELSE fs
    /\ errno' = e
    /\ log' = Append(log, LogEntry("write", path, value, ok))

\* writeValueToPath(dirname, subdirname, basename, value); returns 0 iff ok
writeValueToPath(dirname, subdirname, basename, value, ok, e) ==
    WriteStringToFile(value, StringPrintf3(dirname, subdirname, basename), ok, e)

(***************************************************************************)
(* forEachInterface: the statements of the function, in program order.     *)
(***************************************************************************)
forEachInterfaceSteps_listFirst == <<"opendir", "default", "readdir">>

forEachInterfaceSteps == <<"default", "opendir", "readdir">>

FirstStep == forEachInterfaceSteps[1]

StepAfter(s) ==
    LET i == CHOOSE k \in 1..Len(forEachInterfaceSteps) : forEachInterfaceSteps[k] = s
    IN  IF i < Len(forEachInterfaceSteps) THEN forEachInterfaceSteps[i + 1] ELSE s

Pass == todo[1]

\* the pass returns: the operation goes on with its next pass, or returns
Return ==
    /\ todo' = Tail(todo)
    /\ dirp' = ClosedDir
    /\ cur' = NoCur
    /\ IF Tail(todo) = <<>>
       THEN /\ pc' = "done"
            /\ UNCHANGED <<invoked, listed>>
       ELSE /\ pc' = FirstStep
            /\ invoked' = <<>>
            /\ listed' = {}

fn_maxAlways(iface, resume) ==
    /\ invoked' = Append(invoked, iface)
    /\ \E ok \in Outcomes : \E e \in ErrnoAfter(ok) :
         IF PassKind(Pass) = "set"
         THEN /\ writeValueToPath(PassDir(Pass), iface, PassBasename(Pass), PassValue(Pass), ok, e)
              /\ cur' = NoCur
              /\ pc' = resume
         ELSE /\ writeValueToPath(PassDir(Pass), iface, str_accept_ra_rt_info_min_plen,
                                  to_string(PassMin(Pass)), ok, e)
              /\ cur' = <<iface, resume>>
              /\ pc' = "max"

fn_stopOnFailure(iface, resume) ==
    /\ invoked' = Append(invoked, iface)
    /\ \E ok \in Outcomes : \E e \in ErrnoAfter(ok) :
         IF PassKind(Pass) = "set"
         THEN /\ writeValueToPath(PassDir(Pass), iface, PassBasename(Pass), PassValue(Pass), ok, e)
              /\ cur' = NoCur
              /\ pc' = IF ok THEN resume ELSE "done"
         ELSE /\ writeValueToPath(PassDir(Pass), iface, str_accept_ra_rt_info_min_plen,
                                  to_string(PassMin(Pass)), ok, e)
              /\ IF ok
                 THEN /\ cur' = <<iface, resume>>
                      /\ pc' = "max"
                 ELSE /\ cur' = NoCur
                      /\ pc' = "done"

\* fn(dirname, iface): the callback up to its first write; resume is the
\* statement of forEachInterface that follows the call
fn(iface, resume) ==
    /\ invoked' = Append(invoked, iface)
    /\ \E ok \in Outcomes : \E e \in ErrnoAfter(ok) :
         IF PassKind(Pass) = "set"
         THEN /\ writeValueToPath(PassDir(Pass), iface, PassBasename(Pass), PassValue(Pass), ok, e)
              /\ cur' = NoCur
              /\ pc' = resume
         ELSE /\ writeValueToPath(PassDir(Pass), iface, str_accept_ra_rt_info_min_plen,
                                  to_string(PassMin(Pass)), ok, e)
              /\ IF ok
                 THEN /\ cur' = <<iface, resume>>
                      /\ pc' = "max"
                 ELSE /\ cur' = NoCur
                      /\ pc' = resume

\* fn(dirname, "default")
ForEachDefault ==
    /\ pc = "default"
    /\ fn(str_default, StepAfter("default"))
    /\ UNCHANGED <<present, call, todo, dirp, listed, ret>>

\* the second write of setAcceptIPv6RIO's callback
FnWriteMax ==
    /\ pc = "max"
    /\ \E ok \in Outcomes : \E e \in ErrnoAfter(ok) :
         writeValueToPath(PassDir(Pass), CurIface(cur), str_accept_ra_rt_info_max_plen,
                          to_string(PassMax(Pass)), ok, e)
    /\ pc' = CurResume(cur)
    /\ cur' = NoCur
    /\ UNCHANGED <<present, call, todo, dirp, invoked, listed, ret>>

\* opendir(dirname) succeeds
OpendirOk ==
    /\ pc = "opendir"
    /\ dirp' = <<TRUE, DirEntries(present)>>
    /\ log' = Append(log, LogEntry("opendir", PassDir(Pass), <<>>, TRUE))
    /\ pc' = StepAfter("opendir")
    /\ UNCHANGED <<present, fs, errno, call, todo, cur, invoked, listed, ret>>

\* opendir(dirname) fails: the error is logged and the pass returns
OpendirFail ==
    /\ pc = "opendir"
    /\ FALSE \in Outcomes
    /\ \E e \in IOErrnos : errno' = e
    /\ log' = Append(log, LogEntry("opendir", PassDir(Pass), <<>>, FALSE))
    /\ Return
    /\ UNCHANGED <<present, fs, call, ret>>

\* (ent->d_type != DT_DIR) || !isInterfaceName(ent->d_name)
Skipped_typeIgnored(ent) == ~isInterfaceName(d_name(ent))

Skipped(ent) == (d_type(ent) # "DT_DIR") \/ ~isInterfaceName(d_name(ent))

\* one iteration of the loop whose readdir returns an entry that is skipped
ReaddirSkip ==
    /\ pc = "readdir"
    /\ DirOpen(dirp)
    /\ \E ent \in DirRest(dirp) :
         /\ Skipped(ent)
         /\ dirp' = <<TRUE, DirRest(dirp) \ {ent}>>
         /\ listed' = listed \cup {ent}
    /\ UNCHANGED <<present, fs, errno, pc, call, todo, cur, invoked, log, ret>>

\* one iteration of the loop whose readdir returns an interface
ReaddirApply ==
    /\ pc = "readdir"
    /\ DirOpen(dirp)
    /\ \E ent \in DirRest(dirp) :
         /\ ~Skipped(ent)
         /\ dirp' = <<TRUE, DirRest(dirp) \ {ent}>>
         /\ listed' = listed \cup {ent}
         /\ fn(d_name(ent), "readdir")
    /\ UNCHANGED <<present, call, todo, ret>>

\* readdir returns NULL: closedir and return
ReaddirEnd ==
    /\ pc = "readdir"
    /\ DirOpen(dirp)
    /\ DirRest(dirp) = {}
    /\ Return
    /\ UNCHANGED <<present, fs, errno, call, log, ret>>

(***************************************************************************)
(* The all-interfaces operations, as the forEachInterface passes they run. *)
(***************************************************************************)
setOnAllInterfaces(dirname, basename, value) ==
    << <<"set", dirname, basename, value>> >>

setIPv6UseOutgoingInterfaceAddrsOnly(value) ==
    setOnAllInterfaces(ipv6_proc_path, str_use_oif_addrs_only, value)

setAcceptIPv6RIO(min, max) ==
    << <<"rio", ipv6_proc_path, min, max>> >>

setAcceptRA(value) == setOnAllInterfaces(ipv6_proc_path, str_accept_ra, value)

setAcceptRARouteTable(tableOrOffset) ==
    setOnAllInterfaces(ipv6_proc_path, str_accept_ra_rt_table, to_string(tableOrOffset))

setBaseReachableTimeMs(millis) ==
    setOnAllInterfaces(ipv4_neigh_conf_dir, str_base_reachable_time_ms, to_string(millis))
    \o setOnAllInterfaces(ipv6_neigh_conf_dir, str_base_reachable_time_ms, to_string(millis))

setIPv6OptimisticMode(value) ==
    setOnAllInterfaces(ipv6_proc_path, str_optimistic_dad, value)
    \o setOnAllInterfaces(ipv6_proc_path, str_use_optimistic, value)

initializeAll ==
    setAcceptRA(<<"2">>)
    \o setAcceptIPv6RIO(kRouteInfoMinPrefixLen, kRouteInfoMaxPrefixLen)
    \o setAcceptRARouteTable(0 - ROUTE_TABLE_OFFSET_FROM_INDEX)
    \o setIPv6OptimisticMode(<<"1">>)
    \o setBaseReachableTimeMs(15 * 1000)
    \o setIPv6UseOutgoingInterfaceAddrsOnly(<<"1">>)

\* the control thread enters an all-interfaces operation
BeginCall(name, args, passes) ==
    /\ pc = "idle"
    /\ call' = <<name, args>>
    /\ todo' = passes
    /\ pc' = FirstStep
    /\ UNCHANGED <<present, fs, errno, dirp, cur, invoked, listed, log, ret>>

\* values callers pass for an on/off or mode parameter
Values == { <<"0">>, <<"2">> }

\* prefix lengths: the kernel's initial 0 and the two policy constants
PlenValues == {0, kRouteInfoMinPrefixLen, kRouteInfoMaxPrefixLen}

Call_setAcceptRA ==
    \E value \in Values : BeginCall("setAcceptRA", <<value>>, setAcceptRA(value))

Call_setAcceptIPv6RIO ==
    \E min \in PlenValues : \E max \in PlenValues :
        /\ min <= max
        /\ BeginCall("setAcceptIPv6RIO", <<min, max>>, setAcceptIPv6RIO(min, max))

Call_initializeAll == BeginCall("initializeAll", <<>>, initializeAll)

(***************************************************************************)
(* The single-target setters.                                              *)
(***************************************************************************)
\* if (!isIfaceName(interface)) { errno = ENOENT; return -1; }
\* return writeValueToPath(dirname, interface, basename, value);
SetOnInterface_unchecked(name, args, dirname, interface, basename, value) ==
    /\ pc = "idle"
    /\ call' = <<name, args>>
    /\ \E ok \in Outcomes : \E e \in ErrnoAfter(ok) :
         /\ writeValueToPath(dirname, interface, basename, value, ok, e)
         /\ ret' = << IF ok THEN 0 ELSE 0 - 1 >>
    /\ pc' = "done"
    /\ UNCHANGED <<present, todo, dirp, cur, invoked, listed>>

SetOnInterface(name, args, dirname, interface, basename, value) ==
    /\ pc = "idle"
    /\ call' = <<name, args>>
    /\ IF ~isIfaceName(interface)
       THEN /\ errno' = ENOENT
            /\ ret' = << 0 - 1 >>
            /\ UNCHANGED <<fs, log>>
       ELSE \E ok \in Outcomes : \E e \in ErrnoAfter(ok) :
                /\ writeValueToPath(dirname, interface, basename, value, ok, e)
                /\ ret' = << IF ok THEN 0 ELSE 0 - 1 >>
    /\ pc' = "done"
    /\ UNCHANGED <<present, todo, dirp, cur, invoked, listed>>

setEnableIPv6(interface, on) ==
    SetOnInterface("setEnableIPv6", <<interface, on>>, ipv6_proc_path, interface,
                   str_disable_ipv6, IF on # 0 THEN <<"0">> ELSE <<"1">>)

setAcceptIPv6Ra(interface, on) ==
    SetOnInterface("setAcceptIPv6Ra", <<interface, on>>, ipv6_proc_path, interface,
                   str_accept_ra, IF on # 0 THEN <<"2">> ELSE <<"0">>)

setAcceptIPv6Dad(interface, on) ==
    SetOnInterface("setAcceptIPv6Dad", <<interface, on>>, ipv6_proc_path, interface,
                   str_accept_dad, IF on # 0 THEN <<"1">> ELSE <<"0">>)

setIPv6DadTransmits(interface, value) ==
    SetOnInterface("setIPv6DadTransmits", <<interface, value>>, ipv6_proc_path, interface,
                   str_dad_transmits, value)

setIPv6PrivacyExtensions(interface, on) ==
    SetOnInterface("setIPv6PrivacyExtensions", <<interface, on>>, ipv6_proc_path, interface,
                   str_use_tempaddr, IF on # 0 THEN <<"2">> ELSE <<"0">>)

setMtu(interface, mtu) ==
    SetOnInterface("setMtu", <<interface, mtu>>, sys_net_path, interface, str_mtu, mtu)

\* interface names callers pass
InterfaceArgs ==
    { str_eth0, str_wlan0, str_eth0_1, str_default, str_all, str_dot, str_dotdot,
      str_a_slash_b }

Call_setEnableIPv6 == \E i \in InterfaceArgs : \E on \in {0, 1} : setEnableIPv6(i, on)

Call_setAcceptIPv6Ra == \E i \in InterfaceArgs : \E on \in {0, 1} : setAcceptIPv6Ra(i, on)

Call_setAcceptIPv6Dad == \E i \in InterfaceArgs : \E on \in {0, 1} : setAcceptIPv6Dad(i, on)

Call_setIPv6DadTransmits ==
    \E i \in InterfaceArgs : \E v \in Values : setIPv6DadTransmits(i, v)

Call_setIPv6PrivacyExtensions ==
    \E i \in InterfaceArgs : \E on \in {0, 1} : setIPv6PrivacyExtensions(i, on)

Call_setMtu == \E i \in InterfaceArgs : \E v \in { to_string(1500) } : setMtu(i, v)

(***************************************************************************)
(* The named-parameter accessor.                                           *)
(***************************************************************************)
\* the path, or "" with the value left in errno
getParameterPathname_einval(family, which, interface, parameter) ==
    IF \/ ~isAddressFamilyPathComponent(family)
       \/ ~isNormalPathComponent(which)
       \/ ~isInterfaceName(interface)
       \/ ~isNormalPathComponent(parameter)
    THEN << <<>>, EINVAL >>
    ELSE << StringPrintf5(proc_net_path, family, which, interface, parameter), 0 >>

getParameterPathname(family, which, interface, parameter) ==
    IF ~isAddressFamilyPathComponent(family)
    THEN << <<>>, EAFNOSUPPORT >>
    ELSE IF \/ ~isNormalPathComponent(which)
            \/ ~isInterfaceName(interface)
            \/ ~isNormalPathComponent(parameter)
         THEN << <<>>, EINVAL >>
         ELSE << StringPrintf5(proc_net_path, family, which, interface, parameter), 0 >>

\* android::base::ReadFileToString(path, value): fails on a missing node
ReadFileToString(path, ok, e) ==
    /\ errno' = e
    /\ log' = Append(log, LogEntry("read", path, <<>>, ok))
    /\ UNCHANGED fs

ReadOutcomes(path) == IF path \in DOMAIN fs THEN Outcomes ELSE {FALSE}

\* return ok ? 0 : -errno
IoResult_positive(ok) == IF ok THEN 0 ELSE errno'

IoResult(ok) == IF ok THEN 0 ELSE 0 - errno'

getParameter(family, which, interface, parameter) ==
    /\ pc = "idle"
    /\ call' = <<"getParameter", <<family, which, interface, parameter>>>>
    /\ LET r == getParameterPathname(family, which, interface, parameter)
       IN  IF PathOf(r) = <<>>
           THEN /\ errno' = ErrOf(r)
                /\ ret' = << 0 - errno' >>
                /\ UNCHANGED <<fs, log>>
           ELSE \E ok \in ReadOutcomes(PathOf(r)) : \E e \in ErrnoAfter(ok) :
                    /\ ReadFileToString(PathOf(r), ok, e)
                    /\ ret' = IF ok THEN << IoResult(ok), fs[PathOf(r)] >>
                                    ELSE << IoResult(ok) >>
    /\ pc' = "done"
    /\ UNCHANGED <<present, todo, dirp, cur, invoked, listed>>

setParameter(family, which, interface, parameter, value) ==
    /\ pc = "idle"
    /\ call' = <<"setParameter", <<family, which, interface, parameter, value>> >>
    /\ LET r == getParameterPathname(family, which, interface, parameter)
       IN  IF PathOf(r) = <<>>
           THEN /\ errno' = ErrOf(r)
                /\ ret' = << 0 - errno' >>
                /\ UNCHANGED <<fs, log>>
           ELSE \E ok \in Outcomes : \E e \in ErrnoAfter(ok) :
                    /\ WriteStringToFile(value, PathOf(r), ok, e)
                    /\ ret' = << IoResult(ok) >>
    /\ pc' = "done"
    /\ UNCHANGED <<present, todo, dirp, cur, invoked, listed>>

\* arguments callers pass
Families == { str_ipv4, str_ipv6, str_inet, str_all, <<>> }

Whichs == { str_conf, str_dotdot, str_a_slash_b }

Parameters == { str_accept_ra, str_dot, str_a_slash_b }

Call_getParameter ==
    \E f \in Families : \E w \in Whichs : \E i \in InterfaceArgs : \E p \in Parameters :
        getParameter(f, w, i, p)

Call_setParameter ==
    \E f \in Families : \E w \in Whichs : \E i \in InterfaceArgs : \E p \in Parameters :
        \E v \in Values : setParameter(f, w, i, p, v)

(***************************************************************************)
(* The kernel creates an interface: its nodes start as copies of the       *)
(* "default" nodes, and a directory stream that is open may or may not     *)
(* return the new entry.                                                   *)
(***************************************************************************)
ConfDirs == {ipv6_proc_path, ipv4_neigh_conf_dir, ipv6_neigh_conf_dir}

IsPrefix(pre, s) == Len(pre) <= Len(s) /\ SubSeq(s, 1, Len(pre)) = pre

DefaultPrefix(d) == d \o <<"/">> \o str_default \o <<"/">>

DefaultNodes == { p \in DOMAIN fs : \E d \in ConfDirs : IsPrefix(DefaultPrefix(d), p) }

\* the node of interface n that corresponds to the "default" node p
NodeOf(p, n) ==
    LET d == CHOOSE x \in ConfDirs : IsPrefix(DefaultPrefix(x), p)
    IN  StringPrintf3(d, n, SubSeq(p, Len(DefaultPrefix(d)) + 1, Len(p)))

Created == { n \in present : IsPrefix(str_rmnet, n) }

CreateInterface ==
    /\ pc \notin {"idle", "done"}
    /\ Cardinality(Created) < MaxCreated
    /\ LET n     == str_rmnet \o to_string(Cardinality(Created))
           nodes == { NodeOf(p, n) : p \in DefaultNodes }
       IN  /\ present' = present \cup {n}
           /\ fs' = [ q \in DOMAIN fs \cup nodes |->
                        IF q \in nodes
                        THEN fs[CHOOSE p \in DefaultNodes : NodeOf(p, n) = q]
                        ELSE fs[q] ]
           /\ \E seen \in BOOLEAN :
                dirp' = IF DirOpen(dirp) /\ seen
                        THEN <<TRUE, DirRest(dirp) \cup {<<n, "DT_DIR">>}>>
                        ELSE dirp
    /\ UNCHANGED <<errno, pc, call, todo, cur, invoked, listed, log, ret>>

(***************************************************************************)
(* Initial states.                                                         *)
(***************************************************************************)
EndsWith(s, suf) == Len(suf) <= Len(s) /\ SubSeq(s, Len(s) - Len(suf) + 1, Len(s)) = suf

\* the ipv6 conf nodes of "default" and of the interfaces ifs: accept_ra is 1
\* and the route-information prefix-length pair is old
InitialFs(ifs, old) ==
    LET leaves == {str_accept_ra, str_accept_ra_rt_info_min_plen,
                   str_accept_ra_rt_info_max_plen}
        paths  == { StringPrintf3(ipv6_proc_path, s, l) :
                        s \in {str_default} \cup ifs, l \in leaves }
    IN  [ p \in paths |->
            IF EndsWith(p, <<"/">> \o str_accept_ra) THEN <<"1">>
            ELSE IF EndsWith(p, str_accept_ra_rt_info_min_plen) THEN to_string(old[1])
            ELSE to_string(old[2]) ]

\* stored prefix-length pairs that are not inverted
OldPairs == { pr \in PlenValues \X PlenValues : pr[1] <= pr[2] }

InitEnv(ifsets, pairs, errnos) ==
    /\ present \in ifsets
    /\ \E old \in pairs : fs = InitialFs(present, old)
    /\ errno \in errnos
    /\ pc = "idle"
    /\ call = NoCall
    /\ todo = <<>>
    /\ dirp = ClosedDir
    /\ cur = NoCur
    /\ invoked = <<>>
    /\ listed = {}
    /\ log = <<>>
    /\ ret = <<>>

(***************************************************************************)
(* Spec: one operation on a host whose interface set does not change.      *)
(***************************************************************************)
Init == InitEnv(SUBSET Ifaces, OldPairs, {0})

Next ==
    \/ Call_setAcceptRA
    \/ Call_setAcceptIPv6RIO
    \/ ForEachDefault
    \/ FnWriteMax
    \/ OpendirOk
    \/ OpendirFail
    \/ ReaddirSkip
    \/ ReaddirApply
    \/ ReaddirEnd
    \/ Call_setEnableIPv6
    \/ Call_setAcceptIPv6Ra
    \/ Call_setAcceptIPv6Dad
    \/ Call_setIPv6DadTransmits
    \/ Call_setIPv6PrivacyExtensions
    \/ Call_setMtu
    \/ Call_getParameter
    \/ Call_setParameter

Spec == Init /\ [][Next]_vars

(***************************************************************************)
(* SpecInit: initializeAll() on a host with no or one real interface.      *)
(***************************************************************************)
InitInit == InitEnv({{}, {str_eth0}}, {<<0, 0>>}, {0})

NextInit ==
    \/ Call_initializeAll
    \/ ForEachDefault
    \/ FnWriteMax
    \/ OpendirOk
    \/ OpendirFail
    \/ ReaddirSkip
    \/ ReaddirApply
    \/ ReaddirEnd

SpecInit == InitInit /\ [][NextInit]_vars

(***************************************************************************)
(* SpecConc: a setOnAllInterfaces pass while the kernel creates interfaces.*)
(***************************************************************************)
InitConc == InitEnv({{}, {str_eth0}}, {<<0, 0>>}, {0})

NextConc ==
    \/ Call_setAcceptRA
    \/ CreateInterface
    \/ ForEachDefault
    \/ OpendirOk
    \/ OpendirFail
    \/ ReaddirSkip
    \/ ReaddirApply
    \/ ReaddirEnd

SpecConc == InitConc /\ [][NextConc]_vars

(***************************************************************************)
(* SpecPure: the path-safety predicates applied to every short string.     *)
(***************************************************************************)
Alphabet == {"/", ".", "a", "l"}

Strings(n) == UNION { [1..k -> Alphabet] : k \in 0..n }

InitPure ==
    /\ \E s \in Strings(MaxLen) : call = <<"input", <<s>>>>
    /\ present = {}
    /\ fs = InitialFs({}, <<0, 0>>)
    /\ errno = 0
    /\ pc = "idle"
    /\ todo = <<>>
    /\ dirp = ClosedDir
    /\ cur = NoCur
    /\ invoked = <<>>
    /\ listed = {}
    /\ log = <<>>
    /\ ret = <<>>

Eval(name, result) ==
    /\ pc = "idle"
    /\ call' = <<name, CallArgs(call)>>
    /\ ret' = <<result>>
    /\ pc' = "done"
    /\ UNCHANGED <<present, fs, errno, todo, dirp, cur, invoked, listed, log>>

Eval_isNormalPathComponent ==
    Eval("isNormalPathComponent", isNormalPathComponent(CallArgs(call)[1]))

Eval_isInterfaceName == Eval("isInterfaceName", isInterfaceName(CallArgs(call)[1]))

Eval_isAddressFamilyPathComponent ==
    Eval("isAddressFamilyPathComponent", isAddressFamilyPathComponent(CallArgs(call)[1]))

NextPure ==
    \/ Eval_isNormalPathComponent
    \/ Eval_isInterfaceName
    \/ Eval_isAddressFamilyPathComponent

SpecPure == InitPure /\ [][NextPure]_vars

(***************************************************************************)
(* Vocabulary of the properties.                                           *)
(***************************************************************************)
\* a name the specification calls a valid real interface name
ValidRealName(n) ==
    /\ n \notin {str_dot, str_dotdot, str_default, str_all}
    /\ \A i \in 1..Len(n) : n[i] # "/"

\* the interfaces a complete listing makes the callback run on
ListedInterfaces == { d_name(e) : e \in { x \in listed : d_type(x) = "DT_DIR"
                                                        /\ ValidRealName(d_name(x)) } }

Range(s) == { s[i] : i \in 1..Len(s) }

Writes == { i \in 1..Len(log) : LogOp(log[i]) = "write" }

WritesTo(p) == { i \in Writes : LogPath(log[i]) = p }

AllOk == \A i \in 1..Len(log) : LogOk(log[i])

OpendirSucceeded == \E i \in 1..Len(log) : LogOp(log[i]) = "opendir" /\ LogOk(log[i])

NodePath(dirname, iface, leaf) == dirname \o <<"/">> \o iface \o <<"/">> \o leaf

MinNode(x) == NodePath(ipv6_proc_path, x, str_accept_ra_rt_info_min_plen)

MaxNode(x) == NodePath(ipv6_proc_path, x, str_accept_ra_rt_info_max_plen)

AcceptRaNode(x) == NodePath(ipv6_proc_path, x, str_accept_ra)

Targets == {str_default} \cup present

InRIO == CallName(call) = "setAcceptIPv6RIO"

InSetAll == CallName(call) = "setAcceptRA"

\* C1: one forEachInterface pass invokes the action first on "default" and
\* then exactly once on every listed entry that is a directory with a valid
\* real interface name, on nothing else, whatever the listing order; a pass
\* whose opendir succeeded lists the whole directory.
C1_DefaultFirstThenExactlyListed ==
    /\ (invoked # <<>>) => (invoked[1] = str_default)
    /\ (listed # {}) => (invoked # <<>>)
    /\ { invoked[i] : i \in 2..Len(invoked) } = ListedInterfaces
    /\ Len(invoked) <= 1 + Cardinality(ListedInterfaces)
    /\ (pc = "done" /\ OpendirSucceeded) =>
           /\ listed = DirEntries(present)
           /\ Range(invoked) = Targets

C1_Witness ==
    /\ pc = "done"
    /\ InSetAll
    /\ listed = DirEntries(Ifaces)
    /\ invoked = <<str_default, str_wlan0, str_eth0>>

\* C2: in a setAcceptIPv6RIO pass every write of the maximum for an
\* interface is preceded by a successful write of the minimum for that
\* interface, a failed minimum write is never followed by a maximum write for
\* that interface, and when the pass is over every interface the callback ran
\* on had its minimum written exactly once and its maximum written exactly
\* once iff its own minimum write succeeded.
C2_MinBeforeMaxPerInterface ==
    InRIO =>
      \A x \in Targets :
        /\ \A j \in WritesTo(MaxNode(x)) :
               \E i \in WritesTo(MinNode(x)) : i < j /\ LogOk(log[i])
        /\ (\E i \in WritesTo(MinNode(x)) : ~LogOk(log[i])) => (WritesTo(MaxNode(x)) = {})
        /\ (pc = "done" /\ x \in Range(invoked)) =>
               /\ Cardinality(WritesTo(MinNode(x))) = 1
               /\ Cardinality(WritesTo(MaxNode(x))) =
                      (IF \E i \in WritesTo(MinNode(x)) : LogOk(log[i]) THEN 1 ELSE 0)

C2_Witness ==
    /\ pc = "done"
    /\ InRIO
    /\ \E i \in WritesTo(MinNode(str_eth0)) : ~LogOk(log[i])
    /\ WritesTo(MaxNode(str_eth0)) = {}
    /\ WritesTo(MaxNode(str_wlan0)) # {}
    /\ WritesTo(MaxNode(str_default)) # {}

StoredPlen(p) == CHOOSE v \in PlenValues : to_string(v) = fs[p]

MaxStored(x) == \E j \in WritesTo(MaxNode(x)) : LogOk(log[j])

\* C3 as stated: during and after a setAcceptIPv6RIO(min, max) pass with
\* min <= max, started from pairs that are not inverted, no interface holds a
\* minimum that exceeds its maximum, and the new maximum is stored only where
\* the new minimum is stored.
C3_Original ==
    InRIO =>
      \A x \in Targets :
        /\ StoredPlen(MinNode(x)) <= StoredPlen(MaxNode(x))
        /\ MaxStored(x) => (fs[MinNode(x)] = to_string(CallArgs(call)[1]))

\* C3 as amended: the new maximum is stored only on an interface that holds
\* the new minimum, and a stored minimum exceeds the stored maximum only on
\* an interface that holds the new minimum and whose maximum write has not
\* succeeded (the half-applied pair: new minimum, old maximum).
C3_MaxOnlyAfterMin ==
    InRIO =>
      \A x \in Targets :
        /\ MaxStored(x) => (fs[MinNode(x)] = to_string(CallArgs(call)[1]))
        /\ (StoredPlen(MinNode(x)) > StoredPlen(MaxNode(x))) =>
               /\ fs[MinNode(x)] = to_string(CallArgs(call)[1])
               /\ ~MaxStored(x)

C3_Witness ==
    /\ pc = "done"
    /\ InRIO
    /\ present = Ifaces
    /\ MaxStored(str_default)
    /\ StoredPlen(MinNode(str_eth0)) > StoredPlen(MaxNode(str_eth0))
    /\ \E i \in WritesTo(MinNode(str_wlan0)) : ~LogOk(log[i])

InAccessor == CallName(call) \in {"getParameter", "setParameter"}

\* C4: getParameter and setParameter called with a family other than "ipv4"
\* and "ipv6" return -EAFNOSUPPORT, which is not -EINVAL, whatever the other
\* arguments are, call neither the read nor the write capability and leave
\* the filesystem unchanged.
C4_UnsupportedFamilyNoIO ==
    [][ (pc = "idle" /\ CallName(call') \in {"getParameter", "setParameter"}
            /\ CallArgs(call')[1] \notin {str_ipv4, str_ipv6})
        => /\ ret' = << 0 - EAFNOSUPPORT >>
           /\ ret' # << 0 - EINVAL >>
           /\ log' = log
           /\ fs' = fs ]_vars

C4_Witness ==
    /\ pc = "done"
    /\ CallName(call) = "setParameter"
    /\ CallArgs(call)[1] = str_inet
    /\ CallArgs(call)[2] = str_dotdot
    /\ ret = << 0 - EAFNOSUPPORT >>
    /\ log = <<>>

SetterNode(name, iface) ==
    IF name = "setEnableIPv6" THEN NodePath(ipv6_proc_path, iface, str_disable_ipv6)
    ELSE IF name = "setAcceptIPv6Ra" THEN NodePath(ipv6_proc_path, iface, str_accept_ra)
    ELSE IF name = "setAcceptIPv6Dad" THEN NodePath(ipv6_proc_path, iface, str_accept_dad)
    ELSE IF name = "setIPv6DadTransmits"
         THEN NodePath(ipv6_proc_path, iface, str_dad_transmits)
    ELSE IF name = "setIPv6PrivacyExtensions"
         THEN NodePath(ipv6_proc_path, iface, str_use_tempaddr)
    ELSE NodePath(sys_net_path, iface, str_mtu)

Setters == {"setEnableIPv6", "setAcceptIPv6Ra", "setAcceptIPv6Dad", "setIPv6DadTransmits",
            "setIPv6PrivacyExtensions", "setMtu"}

\* C5: a single-target setter called with ".", "..", a name that contains
\* "/", "default" or "all" returns -1 with errno ENOENT and attempts no write;
\* called with any other name it attempts exactly one write, to
\* <root>/<interface>/<leaf of the setter>.
C5_SetterValidatesInterface ==
    [][ (pc = "idle" /\ CallName(call') \in Setters)
        => IF ValidRealName(CallArgs(call')[1])
           THEN /\ Len(log') = 1
                /\ LogOp(log'[1]) = "write"
                /\ LogPath(log'[1]) = SetterNode(CallName(call'), CallArgs(call')[1])
           ELSE /\ ret' = << 0 - 1 >>
                /\ errno' = ENOENT
                /\ log' = log
                /\ fs' = fs ]_vars

C5_Witness ==
    /\ pc = "done"
    /\ CallName(call) = "setMtu"
    /\ CallArgs(call)[1] = str_default
    /\ ret = << 0 - 1 >>
    /\ errno = ENOENT
    /\ log = <<>>

WrittenPairs == { <<LogPath(log[i]), LogValue(log[i])>> : i \in Writes }

UnderDefault(p) == \E d \in ConfDirs : IsPrefix(d \o <<"/">> \o str_default \o <<"/">>, p)

\* what initializeAll() is specified to write when only "default" exists
ExpectedInitWrites ==
    { <<NodePath(ipv6_proc_path, str_default, str_accept_ra), <<"2">>>>,
      <<NodePath(ipv6_proc_path, str_default, str_accept_ra_rt_info_min_plen),
        <<"4","8">>>>,
      <<NodePath(ipv6_proc_path, str_default, str_accept_ra_rt_info_max_plen),
        <<"6","4">>>>,
      <<NodePath(ipv6_proc_path, str_default, str_accept_ra_rt_table),
        <<"-","1","0","0","0">>>>,
      <<NodePath(ipv6_proc_path, str_default, str_optimistic_dad), <<"1">>>>,
      <<NodePath(ipv6_proc_path, str_default, str_use_optimistic), <<"1">>>>,
      <<NodePath(ipv6_proc_path, str_default, str_use_oif_addrs_only), <<"1">>>>,
      <<NodePath(ipv4_neigh_conf_dir, str_default, str_base_reachable_time_ms),
        <<"1","5","0","0","0">>>>,
      <<NodePath(ipv6_neigh_conf_dir, str_default, str_base_reachable_time_ms),
        <<"1","5","0","0","0">>>> }

\* C7: initializeAll() on a filesystem with no real interface, every write
\* succeeding, writes only under the "default" subdirectories, never writes
\* a (node, value) pair outside the specified set nor a node twice, and when
\* it returns the pairs it wrote are exactly the specified set, each stored.
C7_InitializeAllWrites ==
    (CallName(call) = "initializeAll" /\ present = {}
        /\ \A i \in Writes : LogOk(log[i]))
        => /\ \A i \in Writes : UnderDefault(LogPath(log[i]))
           /\ WrittenPairs \subseteq ExpectedInitWrites
           /\ Cardinality(Writes) = Cardinality(WrittenPairs)
           /\ (pc = "done") =>
                  /\ WrittenPairs = ExpectedInitWrites
                  /\ \A w \in ExpectedInitWrites :
                         w[1] \in DOMAIN fs /\ fs[w[1]] = w[2]

C7_Witness ==
    /\ pc = "done"
    /\ CallName(call) = "initializeAll"
    /\ present = {}
    /\ AllOk
    /\ Cardinality(Writes) = 9
    /\ fs[NodePath(ipv6_proc_path, str_default, str_accept_ra_rt_table)][1] = "-"

\* C8: in a setOnAllInterfaces pass a failed write does not end the
\* enumeration: when the pass is over the write was attempted exactly once on
\* "default" and on every valid listed interface (all the interfaces that
\* exist when opendir succeeded) and on nothing else, every node whose write
\* succeeded holds the value, and the operation returns nothing.
C8_BestEffortAcrossInterfaces ==
    (pc = "done" /\ InSetAll)
        => /\ \E i \in 1..Len(log) : LogOp(log[i]) = "opendir"
           /\ \A x \in {str_default} \cup ListedInterfaces :
                  Cardinality(WritesTo(AcceptRaNode(x))) = 1
           /\ OpendirSucceeded => (ListedInterfaces = present)
           /\ Cardinality(Writes) = 1 + Cardinality(ListedInterfaces)
           /\ \A i \in Writes : LogOk(log[i]) =>
                  (LogValue(log[i]) = CallArgs(call)[1] /\ fs[LogPath(log[i])] = CallArgs(call)[1])
           /\ ret = <<>>

C8_Witness ==
    /\ pc = "done"
    /\ InSetAll
    /\ invoked = <<str_default, str_eth0, str_wlan0>>
    /\ \E i \in WritesTo(AcceptRaNode(str_default)) : ~LogOk(log[i])
    /\ \E i \in WritesTo(AcceptRaNode(str_eth0)) : ~LogOk(log[i])
    /\ \E i \in WritesTo(AcceptRaNode(str_wlan0)) : LogOk(log[i])
    /\ fs[AcceptRaNode(str_wlan0)] = CallArgs(call)[1]

HasChar(s, c) == \E i \in 1..Len(s) : s[i] = c

EvaluatedNormal == pc = "done" /\ CallName(call) = "isNormalPathComponent"

\* C9 as stated: isNormalPathComponent is false for every string that
\* contains "/", every string that contains "." and the string "..".
C9_Original ==
    (EvaluatedNormal /\ (HasChar(CallArgs(call)[1], "/") \/ HasChar(CallArgs(call)[1], ".")
                            \/ CallArgs(call)[1] = str_dotdot))
        => (ret = <<FALSE>>)

\* C9 as amended: isNormalPathComponent is false for every string that
\* contains "/" and for the strings "." and "..", and true for every other
\* string, those that contain "." among other characters included.
C9_RejectsSlashDotAndDotDot ==
    EvaluatedNormal =>
        (ret = << ~(HasChar(CallArgs(call)[1], "/") \/ CallArgs(call)[1] = str_dot
                       \/ CallArgs(call)[1] = str_dotdot) >>)

C9_Witness ==
    /\ EvaluatedNormal
    /\ HasChar(CallArgs(call)[1], "/")
    /\ HasChar(CallArgs(call)[1], ".")
    /\ ret = <<FALSE>>

\* C10: when the kernel creates interfaces during a setOnAllInterfaces pass,
\* each new interface starting as a copy of "default", and opendir and every
\* write succeed, then when the pass is over "default" and every interface
\* that exists, whenever it was created, hold the value.
C10_EveryInterfaceEndsWithValue ==
    (pc = "done" /\ InSetAll /\ AllOk)
        => \A x \in Targets : fs[AcceptRaNode(x)] = CallArgs(call)[1]

C10_Witness ==
    /\ pc = "done"
    /\ InSetAll
    /\ AllOk
    /\ Cardinality(Created) = MaxCreated
    /\ \E x \in Created : WritesTo(AcceptRaNode(x)) = {}
    /\ \E x \in Created : WritesTo(AcceptRaNode(x)) # {}
    /\ \A x \in Targets : fs[AcceptRaNode(x)] = <<"2">>
====
